---- MODULE Spec2Model ----
(***************************************************************************)
(* CCM (Counter with CBC-MAC) of package aesccm: the incremental CBC-MAC   *)
(* accumulator (cbc_mac.go) and the ccm AEAD built on it (Seal, Open,      *)
(* getTag, NewCCM).  Bytes are 0..255, byte slices are sequences, and a    *)
(* uint64 is its 8 big-endian base-256 digits, so that lengths up to       *)
(* 2^64-1 keep their width.                                                *)
(***************************************************************************)
EXTENDS Integers, Sequences, FiniteSets, TLC

VARIABLES nonceSize, tagSize, key, mac, sealed, last, probe

vars == <<nonceSize, tagSize, key, mac, sealed, last, probe>>

----------------------------------------------------------------------------
(* Bounds of the model *)

\* longest plaintext given to Seal (one block and one byte)
MaxPt == 17
\* longest associated data given to Seal and Open
MaxAd == 15
\* longest slice given to one cbcMac.Write in SpecMac
MaxWrite == 17
\* number of accumulator calls in one SpecMac behaviour
MaxMacOps == 3
\* spare capacity of the destination that is extended in place
DstSpare == 40

----------------------------------------------------------------------------
(* Bytes and byte slices *)

Byte == 0 .. 255

\* CbcMacBlockSize
CbcMacBlockSize == 16

\* a sequence given as a function on 1 .. n, as the tuple of its values
Bytes(f) == f \o <<>>

Bit(a, k) == (a \div (2 ^ k)) % 2

\* a ^ b on bytes
XorBits(a, b) ==
  LET s[k \in 0 .. 8] ==
        IF k = 8 THEN 0
        ELSE ((Bit(a, k) + Bit(b, k)) % 2) * (2 ^ k) + s[k + 1]
  IN s[0]

\* the table of a ^ b, at [a + 1][b + 1]
XorTab ==
  Bytes([a \in 1 .. 256 |-> Bytes([b \in 1 .. 256 |-> XorBits(a - 1, b - 1)])])

Xor(a, b) == XorTab[a + 1][b + 1]

\* a | b on bytes
Or(a, b) ==
  LET s[k \in 0 .. 8] ==
        IF k = 8 THEN 0
        ELSE (IF Bit(a, k) + Bit(b, k) > 0 THEN 2 ^ k ELSE 0) + s[k + 1]
  IN s[0]

\* make([]byte, n)
Zeros(n) == Bytes([i \in 1 .. n |-> 0])

\* n bytes, the i-th being seed + 3*i: the test data of the model
Pattern(n, seed) == Bytes([i \in 1 .. n |-> (seed + 3 * i) % 256])

Take(s, n) == SubSeq(s, 1, n)
Drop(s, n) == SubSeq(s, n + 1, Len(s))

\* copy(dst, src): the first min(len) bytes of dst replaced
Copy(dst, src) ==
  Bytes([i \in 1 .. Len(dst) |-> IF i <= Len(src) THEN src[i] ELSE dst[i]])

----------------------------------------------------------------------------
(* uint64 as 8 big-endian digits *)

U64Len == 8

\* uint64(n) for an int of the model (n < 2^31)
ToU64(n) ==
  Bytes([i \in 1 .. U64Len |->
           IF i <= 4 THEN 0 ELSE (n \div (256 ^ (U64Len - i))) % 256])

\* a < b on big-endian digit strings of one length
LtBE(a, b) ==
  \E i \in 1 .. Len(a) :
    /\ a[i] < b[i]
    /\ \A j \in 1 .. i - 1 : a[j] = b[j]

\* digits i, i-1, ..., 1 of a + b + carry, put before acc
RECURSIVE AddFrom(_, _, _, _, _)
AddFrom(a, b, i, carry, acc) ==
  IF i = 0 THEN acc
  ELSE LET t == a[i] + b[i] + carry
       IN AddFrom(a, b, i - 1, t \div 256, <<t % 256>> \o acc)

\* a + b modulo 256^Len(a)
AddBE(a, b) == AddFrom(a, b, Len(a), 0, <<>>)

\* digits i, i-1, ..., 1 of a - b - borrow, put before acc
RECURSIVE SubFrom(_, _, _, _, _)
SubFrom(a, b, i, borrow, acc) ==
  IF i = 0 THEN acc
  ELSE LET t == a[i] - b[i] - borrow
       IN SubFrom(a, b, i - 1, IF t < 0 THEN 1 ELSE 0,
                  <<(t + 256) % 256>> \o acc)

\* a - b modulo 256^Len(a)
SubBE(a, b) == SubFrom(a, b, Len(a), 0, <<>>)

\* a digit string widened on the left to n digits
Widen(a, n) == Zeros(n - Len(a)) \o a

----------------------------------------------------------------------------
(* The block cipher: an external collaborator (cipher.Block).  Any         *)
(* deterministic keyed map of 16-byte blocks serves CCM, which uses the    *)
(* forward direction only; this one mixes each byte with two others, twice.*)

Round(k, b) ==
  Bytes([i \in 1 .. CbcMacBlockSize |->
           (7 * b[i] + 3 * b[(i % CbcMacBlockSize) + 1]
              + 5 * b[((i + 4) % CbcMacBlockSize) + 1] + 11 * i + 29 * k + 1)
             % 256])

\* cipher.Block.Encrypt(dst, src): the bytes written to dst
Encrypt(k, b) == Round(k, Round(k, b))

----------------------------------------------------------------------------
(* cbc_mac.go *)

\* newCBCMACFromBlock
newCBCMACFromBlock == [ci |-> Zeros(CbcMacBlockSize), p |-> 0]

\* Write, lines 38-41: the full block is encrypted when the next byte comes
FlushIfFull(k, m) ==
  IF m.p >= Len(m.ci) THEN [ci |-> Encrypt(k, m.ci), p |-> 0] ELSE m

\* Write, lines 43-44, for the bytes that fit the block: each is XORed in at
\* the cursor, which moves on
XorInto(m, chunk) ==
  [ci |-> Bytes([i \in 1 .. Len(m.ci) |->
                   IF i > m.p /\ i <= m.p + Len(chunk)
                   THEN Xor(m.ci[i], chunk[i - m.p])
                   ELSE m.ci[i]]),
   p |-> m.p + Len(chunk)]

\* cbcMac.Write: the loop over the bytes, taken a block's room at a time
RECURSIVE Write(_, _, _)
Write(k, m, bytes) ==
  IF bytes = <<>> THEN m
  ELSE LET f == FlushIfFull(k, m)
           room == Len(f.ci) - f.p
           n == IF Len(bytes) < room THEN Len(bytes) ELSE room
       IN Write(k, XorInto(f, Take(bytes, n)), Drop(bytes, n))

\* PadZero that encrypts the pending block and leaves the cursor where it is
PadZeroKeepCursor(k, m) ==
  IF m.p # 0 THEN [ci |-> Encrypt(k, m.ci), p |-> m.p] ELSE m

\* cbcMac.PadZero
PadZero(k, m) ==
  IF m.p # 0 THEN [ci |-> Encrypt(k, m.ci), p |-> 0] ELSE m

\* cbcMac.Sum(nil): the accumulator after the flush, and the bytes returned
Sum(k, m) ==
  LET f == IF m.p # 0 THEN [ci |-> Encrypt(k, m.ci), p |-> 0] ELSE m
  IN [mac |-> f, out |-> f.ci]

\* Reset that leaves the accumulator's bytes as they are
ResetKeep(m) == [ci |-> m.ci, p |-> 0]

\* cbcMac.Reset
Reset(m) == [ci |-> Bytes([i \in 1 .. Len(m.ci) |-> 0]), p |-> 0]

\* cbcMac.Size
Size(m) == Len(m.ci)

----------------------------------------------------------------------------
(* Helpers of the package that ccm calls: putUVarInt, maxUnsignedVarInt,   *)
(* sliceForAppend and xorBytes.                                            *)

\* putUVarInt(bs, u) with len(bs) = n: u big-endian over the whole of bs
putUVarInt(n, u) ==
  IF n <= U64Len THEN Drop(u, U64Len - n) ELSE Widen(u, n)

\* maxUnsignedVarInt(n) = 2^(8n) - 1 as a uint64
maxUnsignedVarInt(n) ==
  Bytes([i \in 1 .. U64Len |-> IF i > U64Len - n THEN 255 ELSE 0])

\* xorBytes(dst, a, b): dst after the call
xorBytes(dst, a, b) ==
  LET n == IF Len(b) < Len(a) THEN Len(b) ELSE Len(a)
  IN Bytes([i \in 1 .. Len(dst) |->
             IF i <= n THEN Xor(a[i], b[i]) ELSE dst[i]])

\* sliceForAppend(in, n).  A slice is its bytes b and the spare bytes of its
\* backing array after them: the head extends in place when the capacity
\* allows and is a fresh zeroed copy otherwise; the tail is its last n bytes.
sliceForAppend(in, n) ==
  IF Len(in.spare) >= n
  THEN [head |-> in.b \o Take(in.spare, n), inPlace |-> TRUE]
  ELSE [head |-> in.b \o Zeros(n), inPlace |-> FALSE]

\* the backing array of dst after a call that left `head` in the slice
\* sliceForAppend returned
Backing(dst, sl, head) ==
  IF sl.inPlace
  THEN head \o Drop(dst.spare, Len(head) - Len(dst.b))
  ELSE dst.b \o dst.spare

----------------------------------------------------------------------------
(* cipher.NewCTR(block, iv).XORKeyStream of the standard library: block j  *)
(* of the keystream is the encryption of iv + j, the addition being over   *)
(* the whole 16-byte block, big-endian, modulo 2^128.                      *)

\* the counter block of keystream block j (j a uint64)
CtrBlockAt(iv, j) == AddBE(iv, Widen(j, CbcMacBlockSize))

\* ceil(n / 16) for a uint64 n < 2^64 - 15
NumBlocks(n) ==
  LET s == AddBE(n, ToU64(CbcMacBlockSize - 1))
  IN Bytes([i \in 1 .. U64Len |->
              (s[i] \div 16) + (IF i = 1 THEN 0 ELSE (s[i - 1] % 16) * 16)])

\* the counter blocks whose encryption XORKeyStream uses for n bytes
CtrBlocksUsed(iv, n) ==
  LET nb == (n + CbcMacBlockSize - 1) \div CbcMacBlockSize
  IN Bytes([j \in 1 .. nb |-> CtrBlockAt(iv, ToU64(j - 1))])

\* XORKeyStream(dst, src) over the counter blocks ctrs: the bytes written to
\* dst[:len(src)]
XORKeyStream(k, ctrs, src) ==
  LET ks == Bytes([j \in 1 .. Len(ctrs) |-> Encrypt(k, ctrs[j])])
  IN Bytes([i \in 1 .. Len(src) |->
              Xor(src[i], ks[((i - 1) \div CbcMacBlockSize) + 1]
                            [((i - 1) % CbcMacBlockSize) + 1])])

----------------------------------------------------------------------------
(* ccm *)

\* the thresholds of getTag's length prefix
AdShortLimit == 2 ^ 15 - 2 ^ 7
AdMidLimit == 2147483647

\* getTag, lines 71-85: the length prefix written for len(data) = u > 0
AdPrefix(u) ==
  IF LtBE(u, ToU64(AdShortLimit))
  THEN putUVarInt(2, u)
  ELSE IF ~LtBE(ToU64(AdMidLimit), u)
       THEN <<255, 254>> \o putUVarInt(4, u)
       ELSE <<255, 255>> \o putUVarInt(8, u)

\* getTag, lines 62-64 and 67, with the tag length field as T/2
B0HalfT(N, T, ctr, hasData, q) ==
  LET flags == Or(ctr[1], ((T \div 2) * 8) % 256)
      b == <<flags>> \o SubSeq(ctr, 2, 1 + N) \o putUVarInt(15 - N, q)
  IN IF hasData THEN [b EXCEPT ![1] = Or(b[1], 64)] ELSE b

\* getTag, lines 62-64 and 67: cpy, which is ctr itself, made into B0 for a
\* payload of length q
B0(N, T, ctr, hasData, q) ==
  LET flags == Or(ctr[1], (((T - 2) \div 2) * 8) % 256)
      b == <<flags>> \o SubSeq(ctr, 2, 1 + N) \o putUVarInt(15 - N, q)
  IN IF hasData THEN [b EXCEPT ![1] = Or(b[1], 64)] ELSE b

\* ccm.getTag: the accumulator after the call, the 16 bytes returned, and
\* the first block and the length prefix written to the accumulator
getTag(N, T, k, m, ctr, data, plaintext) ==
  LET m0 == Reset(m)
      b0 == B0(N, T, ctr, Len(data) > 0, ToU64(Len(plaintext)))
      pre == IF Len(data) > 0 THEN AdPrefix(ToU64(Len(data))) ELSE <<>>
      m1 == Write(k, m0, b0)
      m2 == IF Len(data) > 0
            THEN PadZero(k, Write(k, Write(k, m1, pre), data))
            ELSE m1
      m3 == PadZero(k, Write(k, m2, plaintext))
      s == Sum(k, m3)
  IN [mac |-> s.mac, T |-> s.out, b0 |-> b0, prefix |-> pre]

\* lines 120-122 and 154-156: Ctr0
CounterBlock0(N, nonce) ==
  Copy(<<15 - N - 1>> \o Zeros(CbcMacBlockSize - 1), <<15 - N - 1>> \o nonce)

\* lines 127 and 161: counterBlock[15] = 1
CounterBlock1(N, nonce) ==
  [CounterBlock0(N, nonce) EXCEPT ![CbcMacBlockSize] = 1]

\* Seal, line 113, with the length field taken a byte wider
SealTooLargeWide(N, n) == LtBE(maxUnsignedVarInt(15 - N + 1), n)

\* Seal, line 113, with <= for <
SealTooLargeEq(N, n) ==
  LtBE(maxUnsignedVarInt(15 - N), n) \/ maxUnsignedVarInt(15 - N) = n

\* Seal, line 113: the payload of length n is refused
SealTooLarge(N, n) == LtBE(maxUnsignedVarInt(15 - N), n)

\* what a call that did nothing reports
NoCall ==
  [isNil |-> TRUE, ret |-> <<>>, err |-> "", b0 |-> <<>>, prefix |-> <<>>,
   ctrs |-> <<>>, plain |-> <<>>, s0 |-> <<>>, T |-> <<>>]

\* ccm.Seal
Seal(N, T, k, m, dst, nonce, plaintext, additionalData) ==
  IF Len(nonce) # N
  THEN [NoCall EXCEPT !.err = "panic"] @@ [mac |-> m, mem |-> dst.b \o dst.spare]
  ELSE IF SealTooLarge(N, ToU64(Len(plaintext)))
  THEN NoCall @@ [mac |-> m, mem |-> dst.b \o dst.spare]
  ELSE
    LET sl == sliceForAppend(dst, Len(plaintext) + Size(m))
        s0 == Encrypt(k, CounterBlock0(N, nonce))
        counterBlock == CounterBlock1(N, nonce)
        ctrs == CtrBlocksUsed(counterBlock, Len(plaintext))
        ct == XORKeyStream(k, ctrs, plaintext)
        g == getTag(N, T, k, m, counterBlock, additionalData, plaintext)
        ret == dst.b \o ct \o xorBytes(s0, s0, g.T)
    IN [isNil |-> FALSE, ret |-> Take(ret, Len(plaintext) + T), err |-> "",
        b0 |-> g.b0, prefix |-> g.prefix,
        ctrs |-> ctrs,
        plain |-> plaintext, s0 |-> s0, T |-> g.T,
        mac |-> g.mac, mem |-> Backing(dst, sl, ret)]

\* Open, lines 139-149, with the first two tests in the other order
OpenPrecheckSwapped(N, T, nonceLen, n) ==
  IF ~LtBE(ToU64(T), n) THEN "ErrInvalidTagSize"
  ELSE IF nonceLen # N THEN "ErrInvalidNonceSize"
  ELSE IF LtBE(maxUnsignedVarInt(15 - N), SubBE(n, ToU64(T)))
  THEN "ErrMaxPayloadSizeReached"
  ELSE ""

\* Open, lines 139-149: the error for a nonce of nonceLen bytes and an
\* input of n bytes, "" when there is none
OpenPrecheck(N, T, nonceLen, n) ==
  IF nonceLen # N THEN "ErrInvalidNonceSize"
  ELSE IF ~LtBE(ToU64(T), n) THEN "ErrInvalidTagSize"
  ELSE IF LtBE(maxUnsignedVarInt(15 - N), SubBE(n, ToU64(T)))
  THEN "ErrMaxPayloadSizeReached"
  ELSE ""

\* Open, line 169, comparing one byte less
TagMatchesShort(T, tag, given) ==
  Take(tag, T - 1) = Take(given, T - 1)

\* Open, line 169: bytes.Equal(T[:c.tagSize], ciphertext[len(plaintext):])
TagMatches(T, tag, given) == Take(tag, T) = given

\* ccm.Open
Open(N, T, k, m, dst, nonce, ciphertext, additionalData) ==
  LET e == OpenPrecheck(N, T, Len(nonce), ToU64(Len(ciphertext)))
  IN IF e # ""
     THEN [NoCall EXCEPT !.err = e] @@ [mac |-> m, mem |-> dst.b \o dst.spare]
     ELSE
       LET n == Len(ciphertext) - T
           sl == sliceForAppend(dst, n)
           s0 == Encrypt(k, CounterBlock0(N, nonce))
           counterBlock == CounterBlock1(N, nonce)
           ctrs == CtrBlocksUsed(counterBlock, n)
           plaintext == XORKeyStream(k, ctrs, Take(ciphertext, n))
           g == getTag(N, T, k, m, counterBlock, additionalData, plaintext)
           tag == xorBytes(g.T, g.T, s0)
           ret == dst.b \o plaintext
           ok == TagMatches(T, tag, Drop(ciphertext, n))
       IN [isNil |-> ~ok, ret |-> IF ok THEN ret ELSE <<>>,
           err |-> IF ok THEN "" ELSE "ErrAuthenticationFailed",
           b0 |-> g.b0, prefix |-> g.prefix,
           ctrs |-> ctrs,
           plain |-> plaintext, s0 |-> s0, T |-> g.T,
           mac |-> g.mac, mem |-> Backing(dst, sl, ret)]

\* NewCCM, lines 178-188: the error of the construction, "" when it succeeds
NewCCMError(blockSize, N, T) ==
  IF blockSize # CbcMacBlockSize THEN "ErrInvalidBlockSize"
  ELSE IF ~(7 <= N /\ N <= 13) THEN "ErrInvalidNonceSize"
  ELSE IF ~(4 <= T /\ T <= 16 /\ T % 2 = 0) THEN "ErrInvalidTagSize"
  ELSE ""

----------------------------------------------------------------------------
(* The instance and its callers *)

\* nonce and tag lengths offered to NewCCM
CfgN == {6, 7, 13, 14}
CfgT == {3, 4, 5, 10, 16, 18}

\* the key of the block cipher handed to NewCCM
Keys == {1}

\* destinations: nil, a one-byte slice with no spare capacity, and a
\* one-byte slice whose backing array has room for the result
NilDst == [b |-> <<>>, spare |-> <<>>]
Dsts ==
  { NilDst,
    [b |-> <<213>>, spare |-> <<>>],
    [b |-> <<213>>, spare |-> Bytes([i \in 1 .. DstSpare |-> 238])] }

\* nonces: two of the instance's length and one a byte short
NonceA == Bytes([i \in 1 .. nonceSize |-> 255])
NonceB == Pattern(nonceSize, 16)
NonceShort == Pattern(nonceSize - 1, 16)
Nonces == {NonceA, NonceB, NonceShort}

Plaintexts == { Pattern(n, 64) : n \in {0, CbcMacBlockSize, MaxPt} }

AdDatas == { Pattern(n, 128) : n \in {0, CbcMacBlockSize - 2, MaxAd} }

\* 2^16 + 16 bytes: one more than the largest payload of a 13-byte nonce,
\* and a tag
Oversize == Pattern(256 * 256 + CbcMacBlockSize, 32)

\* the arguments of the calls of Seal: every plaintext with every associated
\* data into a nil destination, the shortest and the longest of both into
\* the other destinations, one call with a short nonce and, on an instance
\* whose length field has two bytes, one with a plaintext of 2^16 bytes
SealArgs ==
  { a \in [dst : Dsts, nonce : {NonceA, NonceShort}, pt : Plaintexts,
           ad : AdDatas] :
      \/ a.nonce = NonceA /\ a.dst = NilDst
      \/ a.nonce = NonceA /\ Len(a.pt) = 0 /\ Len(a.ad) = 0
      \/ Len(a.pt) = MaxPt /\ Len(a.ad) = MaxAd /\ a.dst # NilDst }
  \cup (IF 15 - nonceSize = 2
        THEN { [dst |-> NilDst, nonce |-> NonceA,
                pt |-> Take(Oversize, 256 * 256), ad |-> <<>>] }
        ELSE {})

FlipAt(s, i) == [s EXCEPT ![i] = Xor(s[i], 1)]

NoSeal ==
  [ok |-> FALSE, dst |-> NilDst, nonce |-> <<>>, pt |-> <<>>, ad |-> <<>>,
   ret |-> <<>>]

\* inputs given to Open: the last output of Seal, whole, with a tag byte or
\* its first byte changed, or cut to the tag length; before any Seal, an
\* input of no Seal, the empty input and, on an instance whose length field
\* has two bytes, an input whose payload has 2^16 bytes
OpenInputs ==
  (IF sealed.ok
   THEN { [how |-> "sealed", in |-> sealed.ret],
          [how |-> "tagLast", in |-> FlipAt(sealed.ret, Len(sealed.ret))],
          [how |-> "tagFirst",
           in |-> FlipAt(sealed.ret, Len(sealed.ret) - tagSize + 1)],
          [how |-> "first", in |-> FlipAt(sealed.ret, 1)],
          [how |-> "cut", in |-> Take(sealed.ret, tagSize)] }
   ELSE { [how |-> "sealed", in |-> Pattern(tagSize + 1, 32)],
          [how |-> "cut", in |-> <<>>] })
  \cup (IF 15 - nonceSize = 2
        THEN { [how |-> "long", in |-> Take(Oversize, 256 * 256 + tagSize)] }
        ELSE {})

\* the arguments of the calls of Open: those of the last Seal with its
\* output, and the same with one of them changed (the destination, the
\* nonce, the input, the associated data), and a short nonce with a short
\* input
OpenArgs ==
  LET n0 == IF sealed.ok THEN sealed.nonce ELSE NonceA
      a0 == sealed.ad
      a1 == IF a0 = <<>> THEN Pattern(1, 128) ELSE <<>>
  IN { a \in [dst : Dsts, nonce : Nonces, x : OpenInputs, ad : {a0, a1}] :
         \/ a.nonce = n0 /\ a.x.how = "sealed" /\ a.ad = a0
         \/ a.dst = NilDst /\ a.x.how = "sealed" /\ a.ad = a0
         \/ a.dst = NilDst /\ a.nonce = n0 /\ a.ad = a0
         \/ a.dst = NilDst /\ a.nonce = n0 /\ a.x.how = "sealed"
         \/ a.dst = NilDst /\ a.nonce = NonceShort /\ a.x.how = "cut"
                           /\ a.ad = a0 }

NoLast ==
  [op |-> "none", how |-> "", dst |-> NilDst,
   nonce |-> <<>>, in |-> <<>>, ad |-> <<>>, dirty |-> FALSE, res |-> NoCall,
   mem |-> <<>>]

NoProbe == [kind |-> "none"]

\* the state NewCCM leaves: an instance with a fresh accumulator
Init ==
  /\ nonceSize \in CfgN
  /\ tagSize \in CfgT
  /\ NewCCMError(CbcMacBlockSize, nonceSize, tagSize) = ""
  /\ key \in Keys
  /\ mac = newCBCMACFromBlock
  /\ sealed = NoSeal
  /\ last = NoLast
  /\ probe = NoProbe

\* what the state keeps of a result
Result(r) ==
  [isNil |-> r.isNil, ret |-> r.ret, err |-> r.err, b0 |-> r.b0,
   prefix |-> r.prefix, ctrs |-> r.ctrs, plain |-> r.plain, s0 |-> r.s0,
   T |-> r.T]

\* a call of Seal on the instance
SealCall ==
  \E a \in SealArgs :
    \E r \in {Seal(nonceSize, tagSize, key, mac, a.dst, a.nonce, a.pt, a.ad)} :
       /\ mac' = r.mac
       /\ last' = [op |-> "seal", how |-> "", dst |-> a.dst,
                   nonce |-> a.nonce, in |-> a.pt, ad |-> a.ad,
                   dirty |-> mac # newCBCMACFromBlock,
                   res |-> Result(r), mem |-> r.mem]
       /\ sealed' = IF r.isNil THEN sealed
                    ELSE [ok |-> TRUE, dst |-> a.dst, nonce |-> a.nonce,
                          pt |-> a.pt, ad |-> a.ad, ret |-> r.ret]
       /\ UNCHANGED <<nonceSize, tagSize, key, probe>>

\* a call of Open on the instance
OpenCall ==
  \E a \in OpenArgs :
    \E r \in {Open(nonceSize, tagSize, key, mac, a.dst, a.nonce, a.x.in, a.ad)} :
       /\ mac' = r.mac
       /\ last' = [op |-> "open", how |-> a.x.how, dst |-> a.dst,
                   nonce |-> a.nonce, in |-> a.x.in, ad |-> a.ad,
                   dirty |-> mac # newCBCMACFromBlock,
                   res |-> Result(r), mem |-> r.mem]
       /\ UNCHANGED <<nonceSize, tagSize, key, sealed, probe>>

Next == SealCall \/ OpenCall

Spec == Init /\ [][Next]_vars

----------------------------------------------------------------------------
(* The accumulator on its own: any calls of Write, PadZero, Sum and Reset  *)
(* on a fresh cbcMac.                                                      *)

\* lengths of the slices written: none, one byte, a block less one, a
\* block, and more than a block
WriteLens == {0, 1, CbcMacBlockSize - 1, CbcMacBlockSize, MaxWrite}

InitMac ==
  /\ nonceSize = 13
  /\ tagSize = 16
  /\ key \in Keys
  /\ mac = newCBCMACFromBlock
  /\ sealed = NoSeal
  /\ last = NoLast
  /\ probe = [kind |-> "mac", ops |-> 0, op |-> "new", wrote |-> 0,
              out |-> <<>>]

MacStep(op, n, m, out) ==
  /\ probe.ops < MaxMacOps
  /\ mac' = m
  /\ probe' = [kind |-> "mac", ops |-> probe.ops + 1, op |-> op,
               wrote |-> n, out |-> out]
  /\ UNCHANGED <<nonceSize, tagSize, key, sealed, last>>

MacWrite ==
  \E n \in WriteLens, seed \in {0, 90} :
    MacStep("Write", n, Write(key, mac, Pattern(n, seed)), <<>>)

MacPadZero == MacStep("PadZero", 0, PadZero(key, mac), <<>>)

MacSum ==
  \E r \in {Sum(key, mac)} : MacStep("Sum", 0, r.mac, r.out)

MacReset == MacStep("Reset", 0, Reset(mac), <<>>)

NextMac == MacWrite \/ MacPadZero \/ MacSum \/ MacReset

SpecMac == InitMac /\ [][NextMac]_vars

----------------------------------------------------------------------------
(* Seal, Open and getTag on lengths alone.  The size tests, the counter    *)
(* series and the length prefix read only the lengths of their inputs, so  *)
(* they are followed here for lengths up to the largest a slice can have   *)
(* (2^63 - 1), which no byte sequence of the model reaches.  A behaviour   *)
(* is one instance and one call.                                           *)

\* 256^k - 1, 256^k and 16 * 256^k as lengths, for 1 <= k < 8
AllOnes(k) == Bytes([i \in 1 .. U64Len |-> IF i > U64Len - k THEN 255 ELSE 0])
PowerOf256(k) == Bytes([i \in 1 .. U64Len |-> IF i = U64Len - k THEN 1 ELSE 0])
SixteenBlocks(k) ==
  Bytes([i \in 1 .. U64Len |-> IF i = U64Len - k THEN 16 ELSE 0])

\* the largest int: 2^63 - 1
MaxInt == Bytes([i \in 1 .. U64Len |-> IF i = 1 THEN 127 ELSE 255])

\* the lengths tried: around the block size, the thresholds of the length
\* prefix, and the powers of 256 that bound the payload
Lengths ==
  { ToU64(n) : n \in {0, 1, 15, 16, 17, 4096, 4097, 32639, 32640, 65279, 65280,
                      65520, 2147483647} }
    \cup { AddBE(ToU64(2147483647), ToU64(1)), MaxInt }
    \cup { AllOnes(k) : k \in 2 .. U64Len - 1 }
    \cup { PowerOf256(k) : k \in 2 .. U64Len - 1 }
    \cup { SixteenBlocks(k) : k \in 2 .. U64Len - 1 }

InitLen ==
  /\ nonceSize \in 6 .. 14
  /\ tagSize \in 3 .. 18
  /\ NewCCMError(CbcMacBlockSize, nonceSize, tagSize) = ""
  /\ key \in Keys
  /\ mac = newCBCMACFromBlock
  /\ sealed = NoSeal
  /\ last = NoLast
  /\ probe = NoProbe

\* the counter blocks of keystream blocks 0, 255 and the last one, each with
\* its index, among the nb blocks that XORKeyStream uses from iv
CtrSamples(iv, nb) ==
  { <<j, CtrBlockAt(iv, j)>> :
      j \in { x \in {ToU64(0), ToU64(255), SubBE(nb, ToU64(1))} : LtBE(x, nb) } }

\* Seal, lines 113-130, for a plaintext of n bytes
SealLength ==
  \E n \in Lengths, nonce \in {NonceA, NonceB} :
    /\ probe = NoProbe
    /\ probe' = [kind |-> "seal", n |-> n, payload |-> n, nonce |-> nonce,
                 err |-> IF SealTooLarge(nonceSize, n) THEN "nil" ELSE "",
                 ctrs |-> IF SealTooLarge(nonceSize, n) THEN {}
                          ELSE CtrSamples(CounterBlock1(nonceSize, nonce),
                                          NumBlocks(n))]
    /\ UNCHANGED <<nonceSize, tagSize, key, mac, sealed, last>>

\* Open, lines 139-164, for an input of a payload of n bytes and the tag, or
\* of n bytes in all
OpenLength ==
  \E n \in Lengths, withTag \in BOOLEAN,
     nonce \in {NonceA, NonceB, NonceShort} :
    LET len == IF withTag THEN AddBE(n, ToU64(tagSize)) ELSE n
        e == OpenPrecheck(nonceSize, tagSize, Len(nonce), len)
    IN /\ probe = NoProbe
       /\ ~LtBE(MaxInt, len) /\ ~LtBE(len, n)
       /\ probe' = [kind |-> "open", n |-> len,
                    payload |-> SubBE(len, ToU64(tagSize)), nonce |-> nonce,
                    err |-> e,
                    ctrs |-> IF e # "" THEN {}
                             ELSE CtrSamples(CounterBlock1(nonceSize, nonce),
                                    NumBlocks(SubBE(len, ToU64(tagSize))))]
       /\ UNCHANGED <<nonceSize, tagSize, key, mac, sealed, last>>

\* getTag, lines 66-85, for associated data of n > 0 bytes
AdLength ==
  \E n \in Lengths \ {ToU64(0)} :
    /\ probe = NoProbe
    /\ probe' = [kind |-> "ad", n |-> n, prefix |-> AdPrefix(n)]
    /\ UNCHANGED <<nonceSize, tagSize, key, mac, sealed, last>>

NextLen == SealLength \/ OpenLength \/ AdLength

SpecLen == InitLen /\ [][NextLen]_vars

----------------------------------------------------------------------------
(* CCM as SP 800-38C states it, for the properties to refer to: the blocks *)
(* are laid out whole and chained, without the accumulator.                *)

PreErrs ==
  {"ErrInvalidNonceSize", "ErrInvalidTagSize", "ErrMaxPayloadSizeReached"}

\* the low w digits of the uint64 u
LowDigits(u, w) == SubSeq(u, U64Len - w + 1, U64Len)

\* u < 256^w
FitsIn(u, w) == \A i \in 1 .. U64Len - w : u[i] = 0

\* the block B0 of a payload of q bytes
RefB0(N, T, nonce, hasAd, q) ==
  <<(15 - N - 1) + 8 * ((T - 2) \div 2) + (IF hasAd THEN 64 ELSE 0)>>
    \o nonce \o LowDigits(ToU64(q), 15 - N)

\* s followed by zeros up to a whole number of blocks
Pad16(s) == s \o Zeros((CbcMacBlockSize - (Len(s) % CbcMacBlockSize)) % CbcMacBlockSize)

\* the CBC-MAC of a whole number of blocks, chained from x
RECURSIVE RefCbc(_, _, _)
RefCbc(k, x, msg) ==
  IF msg = <<>> THEN x
  ELSE RefCbc(k,
              Encrypt(k, Bytes([i \in 1 .. CbcMacBlockSize |-> Xor(x[i], msg[i])])),
              Drop(msg, CbcMacBlockSize))

\* the 16-byte MAC over B0, the associated data (shorter than 2^16 - 2^8)
\* and the payload
RefMac(N, T, k, nonce, ad, pt) ==
  RefCbc(k, Zeros(CbcMacBlockSize),
         RefB0(N, T, nonce, ad # <<>>, Len(pt))
           \o (IF ad = <<>> THEN <<>>
               ELSE Pad16(<<Len(ad) \div 256, Len(ad) % 256>> \o ad))
           \o Pad16(pt))

\* the counter block of counter value c
RefCtr(N, nonce, c) == <<15 - N - 1>> \o nonce \o LowDigits(ToU64(c), 15 - N)

\* the payload under the keystream of counter values 1, 2, ...
RefCrypt(N, k, nonce, data) ==
  Bytes([i \in 1 .. Len(data) |->
           Xor(data[i],
               Encrypt(k, RefCtr(N, nonce, 1 + (i - 1) \div CbcMacBlockSize))
                 [((i - 1) % CbcMacBlockSize) + 1])])

\* the tag: the first T bytes of the MAC under S0
RefTag(N, T, k, nonce, ad, pt) ==
  LET s0 == Encrypt(k, RefCtr(N, nonce, 0))
      m == RefMac(N, T, k, nonce, ad, pt)
  IN Bytes([i \in 1 .. T |-> Xor(m[i], s0[i])])

----------------------------------------------------------------------------
(* Properties *)

\* C1: Open(nil, nonce, Seal(nil, nonce, pt, ad), ad) returns pt and no
\* error, for every plaintext, the empty one included.
C1_RoundTrip ==
  (/\ last.op = "open" /\ sealed.ok /\ last.how = "sealed"
   /\ sealed.dst = NilDst /\ last.dst = NilDst
   /\ last.nonce = sealed.nonce /\ last.ad = sealed.ad)
  => (last.res.err = "" /\ ~last.res.isNil /\ last.res.ret = sealed.pt)

\* C2: what Seal returns is dst, then len(plaintext) bytes of ciphertext,
\* then the T bytes of the tag.
C2_SealExtendsDst ==
  (last.op = "seal" /\ last.res.err = "" /\ ~last.res.isNil)
  => /\ Len(last.res.ret) = Len(last.dst.b) + Len(last.in) + tagSize
     /\ last.res.ret =
          last.dst.b \o RefCrypt(nonceSize, key, last.nonce, last.in)
            \o RefTag(nonceSize, tagSize, key, last.nonce, last.ad, last.in)

\* the nonce and the input of the last call pass the tests of Open
PassesChecks ==
  /\ Len(last.nonce) = nonceSize
  /\ Len(last.in) > tagSize
  /\ FitsIn(ToU64(Len(last.in) - tagSize), 15 - nonceSize)

\* C3: an Open whose nonce and input pass the tests returns the recovered
\* plaintext and no error exactly when the first T bytes of the MAC over B0,
\* the associated data and the recovered plaintext, under S0, are the last
\* T bytes of the input; otherwise it returns nil and
\* ErrAuthenticationFailed, as it does when a tag byte of an output of Seal
\* was changed.
C3_OpenAuthenticates ==
  (last.op = "open" /\ PassesChecks)
  => LET n == Len(last.in) - tagSize
         pt == RefCrypt(nonceSize, key, last.nonce, Take(last.in, n))
         tag == RefTag(nonceSize, tagSize, key, last.nonce, last.ad, pt)
     IN /\ IF tag = Drop(last.in, n)
           THEN /\ last.res.err = "" /\ ~last.res.isNil
                /\ last.res.ret = last.dst.b \o pt
           ELSE /\ last.res.err = "ErrAuthenticationFailed"
                /\ last.res.isNil /\ last.res.ret = <<>>
        /\ last.how \in {"tagLast", "tagFirst"}
             => last.res.err = "ErrAuthenticationFailed"

\* C3 witness: Open refused an output of Seal whose last tag byte was
\* changed, and elsewhere accepts
C3_Witness ==
  /\ last.op = "open" /\ PassesChecks /\ last.how = "tagLast"
  /\ last.res.err = "ErrAuthenticationFailed" /\ sealed.dst = NilDst
  /\ last.nonce = sealed.nonce /\ last.ad = sealed.ad

\* the error the tests of Open give the last call, in their order
ExpectedPreErr(nonce, in) ==
  IF Len(nonce) # nonceSize THEN "ErrInvalidNonceSize"
  ELSE IF Len(in) <= tagSize THEN "ErrInvalidTagSize"
  ELSE IF ~FitsIn(ToU64(Len(in) - tagSize), 15 - nonceSize)
  THEN "ErrMaxPayloadSizeReached"
  ELSE ""

\* C5: Open tests the nonce length, then the input length against T, then
\* the payload length against maxPayload(N); a failed test returns nil and
\* its error, and leaves the accumulator and the destination as they were,
\* nothing having been decrypted.
C5_OpenPreconditions ==
  [][last'.op = "open"
       => LET e == ExpectedPreErr(last'.nonce, last'.in)
          IN IF e # ""
             THEN /\ last'.res.err = e
                  /\ last'.res.isNil /\ last'.res.ret = <<>>
                  /\ mac' = mac
                  /\ last'.mem = last'.dst.b \o last'.dst.spare
                  /\ last'.res.ctrs = <<>> /\ last'.res.plain = <<>>
             ELSE last'.res.err \notin PreErrs]_vars

\* C5 witness: the payload test failed on an instance whose accumulator had
\* been used
C5_Witness ==
  /\ last.op = "open" /\ last.res.err = "ErrMaxPayloadSizeReached"
  /\ mac # newCBCMACFromBlock

\* C7: a call gives what the same call gives on a fresh instance with the
\* same key, N and T, whatever calls came before.
C7_HistoryIndependent ==
  /\ last.op = "seal"
       => last.res = Result(Seal(nonceSize, tagSize, key, newCBCMACFromBlock,
                                 last.dst, last.nonce, last.in, last.ad))
  /\ last.op = "open"
       => last.res = Result(Open(nonceSize, tagSize, key, newCBCMACFromBlock,
                                 last.dst, last.nonce, last.in, last.ad))

\* C7 witness: a Seal with associated data on an instance whose accumulator
\* an earlier call had left used
C7_Witness ==
  /\ last.op = "seal" /\ last.dirty /\ last.res.err = "" /\ ~last.res.isNil
  /\ Len(last.in) = MaxPt /\ Len(last.ad) = MaxAd

\* C8: the first block the tag computation writes to the MAC is B0: the
\* flags (15-N-1, (T-2)/2 in bits 3-5, bit 6 when there is associated
\* data), the nonce, and the payload length in the last 15-N bytes, where
\* the counter value 1 does not show.
C8_FirstBlockIsB0 ==
  (last.op \in {"seal", "open"} /\ last.res.err \in {"", "ErrAuthenticationFailed"}
     /\ (last.op = "seal" => ~last.res.isNil))
  => last.res.b0 = RefB0(nonceSize, tagSize, last.nonce, last.ad # <<>>,
                         Len(last.res.plain))

\* C8 witness: the tag of a payload of one whole block, whose length has a
\* last byte other than the counter's 1
C8_Witness ==
  /\ last.op = "seal" /\ ~last.res.isNil /\ Len(last.in) = CbcMacBlockSize
  /\ last.ad # <<>> /\ last.res.b0[CbcMacBlockSize] = CbcMacBlockSize

----------------------------------------------------------------------------
(* Properties of the accumulator (SpecMac) *)

\* C10, as claimed: the cursor stays below the block size.
C10_CursorBelowBlock == mac.p >= 0 /\ mac.p < CbcMacBlockSize

\* C10, as amended: the cursor is at most the block size; a Write that fills
\* the block leaves it there, the block not yet encrypted, and PadZero, Sum
\* and Reset leave it 0.
C10_CursorAtMostBlock ==
  /\ mac.p >= 0 /\ mac.p <= CbcMacBlockSize
  /\ probe.kind = "mac" /\ probe.op \in {"PadZero", "Sum", "Reset"} => mac.p = 0
  /\ probe.kind = "mac" /\ probe.op = "Write" /\ probe.wrote > 0 => mac.p >= 1

\* C10 witness: a Write has filled the block and returned
C10_Witness ==
  probe.kind = "mac" /\ probe.op = "Write" /\ mac.p = CbcMacBlockSize

----------------------------------------------------------------------------
(* Properties of the lengths (SpecLen) *)

\* C4, as claimed: the prefix has 2 bytes below 2^16 - 2^8, 6 bytes up to
\* 2^31 - 1 and 10 bytes above.
C4_AdPrefixWidth ==
  probe.kind = "ad"
  => probe.prefix =
       IF LtBE(probe.n, ToU64(65280)) THEN LowDigits(probe.n, 2)
       ELSE IF ~LtBE(ToU64(2147483647), probe.n)
            THEN <<255, 254>> \o LowDigits(probe.n, 4)
            ELSE <<255, 255>> \o probe.n

\* C6: Seal and Open accept a payload of maxPayload(N) = 2^(8(15-N)) - 1
\* bytes and less; above it Seal returns nil and Open
\* ErrMaxPayloadSizeReached.
C6_MaxPayload ==
  /\ probe.kind = "seal"
       => (probe.err = "nil") = ~FitsIn(probe.payload, 15 - nonceSize)
  /\ (probe.kind = "open" /\ Len(probe.nonce) = nonceSize
        /\ LtBE(ToU64(tagSize), probe.n))
       => /\ probe.err \in {"", "ErrMaxPayloadSizeReached"}
          /\ (probe.err = "ErrMaxPayloadSizeReached")
               = ~FitsIn(probe.payload, 15 - nonceSize)

\* C6 witness: Open refused a payload of maxPayload(N) + 1 bytes
C6_Witness ==
  /\ probe.kind = "open" /\ nonceSize = 10
  /\ probe.payload = PowerOf256(15 - nonceSize)
  /\ probe.err = "ErrMaxPayloadSizeReached"

\* 16 * u modulo 2^64
Times16(u) ==
  Bytes([i \in 1 .. U64Len |->
           ((u[i] * 16) % 256) + (IF i = U64Len THEN 0 ELSE u[i + 1] \div 16)])

\* C9: the keystream of a payload within maxPayload(N) comes from counter
\* values 1 .. ceil(len/16): block j has the flag byte and the nonce
\* unchanged and j + 1 in its last 15-N bytes, which is not 0 and did not
\* wrap.
C9_CounterSeparation ==
  probe.kind \in {"seal", "open"}
  => /\ \A s \in probe.ctrs :
          LET c == AddBE(s[1], ToU64(1))
          IN /\ s[2] = <<15 - nonceSize - 1>> \o probe.nonce
                         \o LowDigits(c, 15 - nonceSize)
             /\ FitsIn(c, 15 - nonceSize)
             /\ c # ToU64(0)
             /\ LtBE(Times16(s[1]), probe.payload)
     /\ (probe.err = "" /\ probe.payload # ToU64(0))
          => \E s \in probe.ctrs :
               ~LtBE(Times16(AddBE(s[1], ToU64(1))), probe.payload)

\* C9 witness: a payload of maxPayload(13) = 65535 bytes, whose last counter
\* value is 4096
C9_Witness ==
  /\ probe.kind = "seal" /\ nonceSize = 13 /\ probe.payload = AllOnes(2)
  /\ \E s \in probe.ctrs : Drop(s[2], 1 + nonceSize) = <<16, 0>>

====
